---- MODULE Spec2Model ----
(***************************************************************************)
(* The mental-health chat of the Index page (src/unnamed/part_000) and the *)
(* mentalHealthService it calls (src/src/App.tsx), as one state machine.   *)
(*                                                                         *)
(* The page is a React component: a handler started by the user reads the  *)
(* state of the latest render; what it still holds after an await          *)
(* (updatedMessages, the chatImage it passed on) is the value captured     *)
(* when it started.  Every await of a gateway call or of a timer is a      *)
(* point where other handlers can run, so each such point is a position    *)
(* (pc) of an in-flight task and each continuation is an action.           *)
(***************************************************************************)
EXTENDS Integers, Sequences, FiniteSets, TLC

(* ------------------------------ bounds --------------------------------- *)
TicksPerInterval == 1   \* clock steps in the initial request interval
MaxTicks == 2           \* clock steps taken in a run
MaxMsgs == 4            \* sendMessage is not started on a longer conversation
MaxTextLen == 1         \* longest text typed into the chat input
MaxSends == 2           \* sendMessage calls in flight at once
MaxStarts == 1          \* startMentalHealthMode calls in flight at once
MaxWaitSteps == 5       \* half intervals between the last request and a call
MaxOpens == 2           \* openCamera calls in a run

(* -------------------------- program constants -------------------------- *)
InitialLastRequestTime == 0
InitialInterval == 5000
RateLimitInterval == 10000
InitTimeoutMs == 10000

(* -------------------------------- clock -------------------------------- *)
\* Date.now() when the page is loaded: far more than any interval after the
\* epoch, so that the first request never waits
StartTime == 2 * RateLimitInterval
TickMs == InitialInterval \div TicksPerInterval
EndTime == StartTime + MaxTicks * TickMs

(* ------------------------------- values -------------------------------- *)
Whitespace == {" "}
Chars == {" ", "a"}
Texts == UNION {[1..n -> Chars] : n \in 0..MaxTextLen}
Replies == {<<"r">>}
NoImage == "null"
Images == {"file"}
GatewayErrors == {"429", "529", "network", "invalid"}

RECURSIVE TrimStart(_)
TrimStart(s) ==
    IF s # <<>> /\ Head(s) \in Whitespace THEN TrimStart(Tail(s)) ELSE s

RECURSIVE TrimEnd(_)
TrimEnd(s) ==
    IF s # <<>> /\ s[Len(s)] \in Whitespace
    THEN TrimEnd(SubSeq(s, 1, Len(s) - 1))
    ELSE s

\* String.prototype.trim
Trim(s) == TrimEnd(TrimStart(s))

VARIABLES
    now,                   \* Date.now()
    _lastRequestTime,      \* mentalHealthService._lastRequestTime
    _minRequestInterval,   \* mentalHealthService._minRequestInterval
    isMentalHealthMode,    \* Index state
    chatMessages,          \* Index state: sequence of [role, content]
    currentMessage,        \* Index state: text of the chat input
    chatImage,             \* Index state: File | null
    chatImagePreview,      \* Index state: object URL | null
    loading,               \* Index state
    toast,                 \* titles of the toasts the last step raised, in order
    sends,                 \* the sendMessage calls in flight, oldest first
    startsInFlight,        \* the startMentalHealthMode calls awaiting startConversation
    isCameraOpen,          \* Index state
    isVideoReady,          \* Index state
    cameraError,           \* Index state: message | null
    isChatCameraOpen,      \* Index state
    streamRef,             \* streamRef.current: a stream, or 0 for null
    timeoutRef,            \* timeoutRef.current and the timer it names
    videoSrcObject,        \* videoRef.current.srcObject: a stream, or 0 for null
    liveStreams,           \* the streams obtained whose tracks are not stopped
    getUserMedia,          \* the openCamera calls awaiting getUserMedia
    callbacks,             \* the scheduled timers and promise callbacks of the camera
    opened,                \* openCamera calls so far
    closedSinceOpen,       \* history: closeCamera ran and openCamera was not called since
    imageUrl,              \* Index state
    imageFile,             \* Index state: File | null
    imagePreviewUrl        \* Index state: object URL | null

cameraVars == <<isCameraOpen, isVideoReady, cameraError, isChatCameraOpen, streamRef,
                timeoutRef, videoSrcObject, liveStreams, getUserMedia, callbacks, opened,
                closedSinceOpen>>
imageTabVars == <<imageUrl, imageFile, imagePreviewUrl>>
pageVars == <<cameraVars, imageTabVars>>

vars == <<now, _lastRequestTime, _minRequestInterval, isMentalHealthMode,
          chatMessages, currentMessage, chatImage, chatImagePreview, loading,
          toast, sends, startsInFlight, pageVars>>

serviceVars == <<_lastRequestTime, _minRequestInterval>>
chatInputVars == <<currentMessage, chatImage, chatImagePreview>>

\* the slots of sends: the calls in flight, oldest first
Slots == 1..Len(sends)

\* a sequence without its i-th element
Remove(s, i) == SubSeq(s, 1, i - 1) \o SubSeq(s, i + 1, Len(s))

Max(a, b) == IF a >= b THEN a ELSE b

(* ------------------------- mentalHealthService ------------------------- *)

CooldownWait_FullInterval(t, last, interval) == IF t - last < interval THEN interval ELSE 0

\* _enforceRequestCooldown: the wait it computes, 0 when it does not wait
CooldownWait(t, last, interval) ==
    IF t - last < interval THEN interval - (t - last) ELSE 0

\* continueConversation's catch: which errors count as a rate limit
IsRateLimitError(err) == err \in {"429", "529"}

\* startConversation's catch: which errors count as a rate limit
IsStartRateLimitError(err) == err = "429"

IntervalAfterFailure_Reset(prev, err) ==
    IF IsRateLimitError(err) THEN RateLimitInterval ELSE InitialInterval

IntervalAfterFailure_Any(prev, err) == RateLimitInterval

\* continueConversation's catch: _minRequestInterval after the error
IntervalAfterFailure(prev, err) ==
    IF IsRateLimitError(err) THEN RateLimitInterval ELSE prev

\* the sonner toast of continueConversation's catch
ContinueErrorToast(err) ==
    IF IsRateLimitError(err) THEN "Service Rate Limit Reached" ELSE "Conversation Error"

\* the sonner toast of startConversation's catch
StartErrorToast(err) ==
    IF IsStartRateLimitError(err) THEN "Service Temporarily Busy" ELSE "Service Error"

\* the position of continueConversation once the cooldown is over: the image
\* helper's gateway call when an image was passed, else the completion call
AfterCooldown(userImage) == IF userImage # NoImage THEN "image" ELSE "completion"

\* URL.createObjectURL(userImage) in continueConversation: it returns (TRUE) or
\* throws (FALSE); without an image it is not called
ObjectUrlOutcomes(userImage) == IF userImage # NoImage THEN BOOLEAN ELSE {TRUE}

\* continueConversation once the cooldown is over and the object URL was
\* asked for: a throw is caught by the outer image catch, which skips the
\* helper and the note and goes on to the completion call
AfterObjectUrl(userImage, urlOk) ==
    IF urlOk THEN AfterCooldown(userImage) ELSE "completion"

\* the toast of the outer image catch
ObjectUrlToast(urlOk) == IF urlOk THEN <<>> ELSE <<"Image Processing">>

\* how the gateway call of analyzeImageSentiment can end
ImageOutcomes == {"ok"} \cup GatewayErrors

AnalyzeImageSentiment_Throws(outcome) == IF outcome = "ok" THEN "sentiment" ELSE "null"

\* analyzeImageSentiment: the gateway's text, or the fallback its catch
\* returns on any error; it never throws
AnalyzeImageSentiment(outcome) == IF outcome = "ok" THEN "sentiment" ELSE "fallback"

AfterImageSentiment_Abort(outcome) == IF outcome = "ok" THEN "completion" ELSE "failed"

\* the position of continueConversation once the helper came back: the
\* completion call, whatever the helper's outcome
AfterImageSentiment(outcome) == "completion"

\* the text continueConversation appends for an image
ImageNote == <<"\n", "\n", "I'm also sharing a photo of myself.">>

\* lastUserMessageIndex: findIndex gives the first index whose message has
\* role user and is the last one or is followed by an assistant message;
\* indices are from 1 here, and 0 stands for findIndex's -1
LastUserMessageIndex(arr) ==
    LET hits == {i \in 1..Len(arr) :
                    /\ arr[i].role = "user"
                    /\ (i = Len(arr) \/ arr[i + 1].role = "assistant")}
    IN IF hits = {} THEN 0 ELSE CHOOSE i \in hits : \A j \in hits : i <= j

EnhancedMessages_WithSentiment(messages, imageAnalysis) ==
    LET idx == LastUserMessageIndex(messages)
    IN IF imageAnalysis = "null" \/ idx = 0
       THEN messages
       ELSE [messages EXCEPT ![idx].content = @ \o ImageNote \o <<imageAnalysis>>]

\* enhancedMessages when the completion call is made: the messages passed
\* in, with the note appended to the message at lastUserMessageIndex once
\* the image helper has come back
EnhancedMessages(messages, imageAnalysis) ==
    LET idx == LastUserMessageIndex(messages)
    IN IF imageAnalysis = "null" \/ idx = 0
       THEN messages
       ELSE [messages EXCEPT ![idx].content = @ \o ImageNote]

Preamble == "You are an AI mental health assistant ... Previous conversation:"
FinalInstruction == "Respond to the person's most recent message with empathy and insight:"

PromptLine_AllPerson(msg) == <<"\n", "Person", ": ", msg.content>>

\* the text the forEach adds for one message
PromptLine(msg) ==
    <<"\n", IF msg.role = "user" THEN "Person" ELSE "Assistant", ": ", msg.content>>

\* the forEach over enhancedMessages: one piece added to the prompt per message
RECURSIVE AddHistory(_, _)
AddHistory(prompt, messages) ==
    IF messages = <<>>
    THEN prompt
    ELSE AddHistory(Append(prompt, PromptLine(Head(messages))), Tail(messages))

\* fullPrompt, as the sequence of its pieces
FullPrompt(enhancedMessages) ==
    Append(AddHistory(<< <<Preamble>> >>, enhancedMessages),
           <<"\n", "\n", FinalInstruction>>)

(* ------------------------------ Index page ----------------------------- *)

AssistantMessage(content) == [role |-> "assistant", content |-> content]

UserMessage_WrongRole(text) == [role |-> "assistant", content |-> Trim(text)]

UserMessage_NoTrim(text) == [role |-> "user", content |-> text]

\* sendMessage: the message built from the chat input
UserMessage(text) == [role |-> "user", content |-> Trim(text)]

IsEmptyInput_NoTrim(text, image) == text = <<>> /\ image = NoImage

\* sendMessage: the validation that rejects the call
IsEmptyInput(text, image) == Trim(text) = <<>> /\ image = NoImage

\* sendMessage: the messages handed to continueConversation, role and content only
ApiMessages(updatedMessages) ==
    [k \in 1..Len(updatedMessages) |->
        [role |-> updatedMessages[k].role, content |-> updatedMessages[k].content]]

Outstanding ==
    startsInFlight + Cardinality({i \in Slots : sends[i].pc \in {"image", "completion"}})

\* timeoutRef when timeoutRef.current is null
NoTimeout ==
    [id |-> 0, fireAt |-> 0, isVideoReady |-> FALSE, isCameraOpen |-> FALSE,
     pending |-> FALSE]

NoError == "null"

\* the camera and the image tab when the page is loaded
PageInit ==
    /\ isCameraOpen = FALSE
    /\ isVideoReady = FALSE
    /\ cameraError = NoError
    /\ isChatCameraOpen = FALSE
    /\ streamRef = 0
    /\ timeoutRef = NoTimeout
    /\ videoSrcObject = 0
    /\ liveStreams = {}
    /\ getUserMedia = {}
    /\ callbacks = {}
    /\ opened = 0
    /\ closedSinceOpen = FALSE
    /\ imageUrl = ""
    /\ imageFile = NoImage
    /\ imagePreviewUrl = NoImage

Init ==
    /\ PageInit
    /\ now = StartTime
    /\ _lastRequestTime = InitialLastRequestTime
    /\ _minRequestInterval = InitialInterval
    /\ isMentalHealthMode = FALSE
    /\ chatMessages = <<>>
    /\ currentMessage = <<>>
    /\ chatImage = NoImage
    /\ chatImagePreview = NoImage
    /\ loading = FALSE
    /\ toast = <<>>
    /\ sends = <<>>
    /\ startsInFlight = 0

\* time passes
Tick ==
    /\ now + TickMs <= EndTime
    /\ now' = now + TickMs
    /\ toast' = <<>>
    /\ UNCHANGED <<serviceVars, isMentalHealthMode, chatMessages, chatInputVars,
                   loading, sends, startsInFlight>>
    /\ UNCHANGED pageVars

\* the chat Textarea's onChange
TypeMessage(text) ==
    /\ isMentalHealthMode
    /\ currentMessage' = text
    /\ toast' = <<>>
    /\ UNCHANGED <<now, serviceVars, isMentalHealthMode, chatMessages, chatImage,
                   chatImagePreview, loading, sends, startsInFlight>>
    /\ UNCHANGED pageVars

\* handleChatImageSelect with a file chosen
HandleChatImageSelect(file) ==
    /\ isMentalHealthMode
    /\ chatImage' = file
    /\ chatImagePreview' = file
    /\ toast' = <<>>
    /\ UNCHANGED <<now, serviceVars, isMentalHealthMode, chatMessages,
                   currentMessage, loading, sends, startsInFlight>>
    /\ UNCHANGED pageVars

\* the X button on the chat image preview
RemoveChatImage ==
    /\ isMentalHealthMode
    /\ chatImagePreview # NoImage
    /\ chatImage' = NoImage
    /\ chatImagePreview' = NoImage
    /\ toast' = <<>>
    /\ UNCHANGED <<now, serviceVars, isMentalHealthMode, chatMessages,
                   currentMessage, loading, sends, startsInFlight>>
    /\ UNCHANGED pageVars

\* startMentalHealthMode up to its await: startConversation issues its
\* gateway call at once, with no cooldown
StartMentalHealthMode ==
    /\ ~isMentalHealthMode
    /\ startsInFlight < MaxStarts
    /\ loading' = TRUE
    /\ startsInFlight' = startsInFlight + 1
    /\ toast' = <<>>
    /\ UNCHANGED <<now, serviceVars, isMentalHealthMode, chatMessages, chatInputVars,
                   sends>>
    /\ UNCHANGED pageVars

\* startConversation resolved: the rest of startMentalHealthMode's try, and finally
StartConversationSucceeds(reply) ==
    /\ startsInFlight > 0
    /\ startsInFlight' = startsInFlight - 1
    /\ chatMessages' = <<AssistantMessage(reply)>>
    /\ isMentalHealthMode' = TRUE
    /\ toast' = <<"Mental Health Assistant Activated">>
    /\ loading' = FALSE
    /\ UNCHANGED <<now, serviceVars, chatInputVars, sends>>
    /\ UNCHANGED pageVars

\* startConversation threw: its catch, then startMentalHealthMode's catch and finally
StartConversationFails(err) ==
    /\ startsInFlight > 0
    /\ startsInFlight' = startsInFlight - 1
    /\ toast' = <<StartErrorToast(err), "Service Error">>
    /\ loading' = FALSE
    /\ UNCHANGED <<now, serviceVars, isMentalHealthMode, chatMessages, chatInputVars,
                   sends>>
    /\ UNCHANGED pageVars

\* the Exit Assessment Mode button
ExitAssessmentMode ==
    /\ isMentalHealthMode
    /\ isMentalHealthMode' = FALSE
    /\ chatMessages' = <<>>
    /\ chatImage' = NoImage
    /\ chatImagePreview' = NoImage
    /\ toast' = <<>>
    /\ UNCHANGED <<now, serviceVars, currentMessage, loading, sends, startsInFlight>>
    /\ UNCHANGED pageVars

\* what lets the user start sendMessage: Enter in the chat input, the send
\* button (disabled while loading or with nothing to send), or the card's
\* footer button on the gpt tab (handleAnalyze -> handleGptSubmit, disabled
\* while loading)
CanSend(via) ==
    /\ isMentalHealthMode
    /\ CASE via = "enter" -> TRUE
         [] via = "button" ->
                ~(loading \/ (Trim(currentMessage) = <<>> /\ chatImage = NoImage))
         [] via = "footer" -> ~loading

\* sendMessage up to its first await, continueConversation's cooldown included
SendMessage(via) ==
    /\ CanSend(via)
    /\ IF IsEmptyInput(currentMessage, chatImage)
       THEN /\ toast' = <<"Empty Message">>
            /\ UNCHANGED <<now, serviceVars, isMentalHealthMode, chatMessages,
                           chatInputVars, loading, sends, startsInFlight>>
       ELSE /\ Len(chatMessages) < MaxMsgs
            /\ Len(sends) < MaxSends
            /\ LET updatedMessages == Append(chatMessages, UserMessage(currentMessage))
                   waitTime == CooldownWait(now, _lastRequestTime, _minRequestInterval)
               IN /\ chatMessages' = updatedMessages
                  /\ currentMessage' = <<>>
                  /\ loading' = TRUE
                  /\ IF waitTime > 0
                     THEN /\ sends' = Append(sends,
                                  [pc |-> "cooldown", updatedMessages |-> updatedMessages,
                                   userImage |-> chatImage, wakeAt |-> now + waitTime,
                                   imageAnalysis |-> "null"])
                          /\ toast' = <<>>
                          /\ UNCHANGED _lastRequestTime
                     ELSE \E urlOk \in ObjectUrlOutcomes(chatImage) :
                          /\ sends' = Append(sends,
                                  [pc |-> AfterObjectUrl(chatImage, urlOk),
                                   updatedMessages |-> updatedMessages,
                                   userImage |-> chatImage, wakeAt |-> 0,
                                   imageAnalysis |-> "null"])
                          /\ toast' = ObjectUrlToast(urlOk)
                          /\ _lastRequestTime' = now
            /\ UNCHANGED <<now, _minRequestInterval, isMentalHealthMode, chatImage,
                           chatImagePreview, startsInFlight>>
    /\ UNCHANGED pageVars

\* the setTimeout of _enforceRequestCooldown fired: _lastRequestTime is set and
\* continueConversation goes on to its first gateway call
CooldownElapsed(i) ==
    /\ i \in Slots
    /\ sends[i].pc = "cooldown"
    /\ now >= sends[i].wakeAt
    /\ _lastRequestTime' = now
    /\ \E urlOk \in ObjectUrlOutcomes(sends[i].userImage) :
          /\ sends' = [sends EXCEPT ![i].pc = AfterObjectUrl(sends[i].userImage, urlOk),
                                    ![i].wakeAt = 0]
          /\ toast' = ObjectUrlToast(urlOk)
    /\ UNCHANGED <<now, _minRequestInterval, isMentalHealthMode, chatMessages,
                   chatInputVars, loading, startsInFlight>>
    /\ UNCHANGED pageVars

\* analyzeImageSentiment came back: its result, or its fallback on any error;
\* continueConversation adds the note, composes the prompt and goes on to the
\* completion call
ImageSentimentReturns(i, outcome) ==
    /\ i \in Slots
    /\ sends[i].pc = "image"
    /\ sends' = [sends EXCEPT ![i].pc = AfterImageSentiment(outcome),
                              ![i].imageAnalysis = AnalyzeImageSentiment(outcome)]
    /\ toast' = <<>>
    /\ UNCHANGED <<now, serviceVars, isMentalHealthMode, chatMessages, chatInputVars,
                   loading, startsInFlight>>
    /\ UNCHANGED pageVars

\* the completion call resolved: continueConversation returns and sendMessage
\* finishes its try, then finally
CompletionSucceeds(i, reply) ==
    /\ i \in Slots
    /\ sends[i].pc = "completion"
    /\ chatMessages' = Append(sends[i].updatedMessages, AssistantMessage(reply))
    /\ chatImage' = NoImage
    /\ chatImagePreview' = NoImage
    /\ loading' = FALSE
    /\ sends' = Remove(sends, i)
    /\ toast' = <<>>
    /\ UNCHANGED <<now, serviceVars, isMentalHealthMode, currentMessage,
                   startsInFlight>>
    /\ UNCHANGED pageVars

\* the completion call threw: continueConversation's catch, then sendMessage's
\* catch and finally
CompletionFails(i, err) ==
    /\ i \in Slots
    /\ sends[i].pc = "completion"
    /\ _minRequestInterval' = IntervalAfterFailure(_minRequestInterval, err)
    /\ toast' = <<ContinueErrorToast(err), "Conversation Error">>
    /\ loading' = FALSE
    /\ sends' = Remove(sends, i)
    /\ UNCHANGED <<now, _lastRequestTime, isMentalHealthMode, chatMessages,
                   chatInputVars, startsInFlight>>
    /\ UNCHANGED pageVars

Next ==
    \/ Tick
    \/ \E text \in Texts : TypeMessage(text)
    \/ \E file \in Images : HandleChatImageSelect(file)
    \/ RemoveChatImage
    \/ StartMentalHealthMode
    \/ \E reply \in Replies : StartConversationSucceeds(reply)
    \/ \E err \in GatewayErrors : StartConversationFails(err)
    \/ ExitAssessmentMode
    \/ \E via \in {"enter", "button", "footer"} : SendMessage(via)
    \/ \E i \in 1..MaxSends : CooldownElapsed(i)
    \/ \E i \in 1..MaxSends, outcome \in ImageOutcomes : ImageSentimentReturns(i, outcome)
    \/ \E i \in 1..MaxSends, reply \in Replies : CompletionSucceeds(i, reply)
    \/ \E i \in 1..MaxSends, err \in GatewayErrors : CompletionFails(i, err)

Spec == Init /\ [][Next]_vars

(* ------------------------------- claims -------------------------------- *)

\* a text of whitespace only, the empty text included
IsBlank(text) == \A k \in 1..Len(text) : text[k] \in Whitespace

\* the errors by which the gateway signals rate limiting
RateLimitSignals == {"429", "529"}

\* C1: every gateway call that opens a request (the opening call of
\* startConversation, the first call of continueConversation) is issued only
\* when at least _minRequestInterval ms have passed since the recorded
\* _lastRequestTime.
GatewayCallsSpaced ==
    [][Outstanding' > Outstanding => now - _lastRequestTime >= _minRequestInterval]_vars

\* C2: chatMessages never holds two consecutive assistant messages.
NoConsecutiveAssistant ==
    \A k \in 1..(Len(chatMessages) - 1) :
        ~(chatMessages[k].role = "assistant" /\ chatMessages[k + 1].role = "assistant")

\* a conversation with two user messages in a row (a failed or overlapped
\* turn) that a later reply closed
ReplyAfterTwoUserMessages ==
    /\ Len(chatMessages) = 4
    /\ chatMessages[2].role = "user"
    /\ chatMessages[3].role = "user"
    /\ chatMessages[4].role = "assistant"

\* C3: a turn grows the conversation by its user message when it starts and
\* by the assistant message when its gateway call succeeds; when the call
\* fails the conversation is the one the turn left, its user message last.
SendTurnGrowth ==
    [][/\ \A via \in {"enter", "button", "footer"} :
              (SendMessage(via) /\ ~(IsBlank(currentMessage) /\ chatImage = NoImage)) =>
                  /\ Len(chatMessages') = Len(chatMessages) + 1
                  /\ chatMessages'[Len(chatMessages')].role = "user"
       /\ \A i \in 1..MaxSends : \A reply \in Replies :
              CompletionSucceeds(i, reply) =>
                  chatMessages' = Append(chatMessages, AssistantMessage(reply))
       /\ \A i \in 1..MaxSends : \A err \in GatewayErrors :
              CompletionFails(i, err) =>
                  chatMessages' = sends[i].updatedMessages]_vars

\* C4: at most one gateway request is outstanding at any time.
AtMostOneOutstanding == Outstanding <= 1

\* C5: the reply of a turn abandoned by leaving assessment mode is discarded:
\* the emptied conversation stays empty.
AbandonedTurnDiscarded ==
    [][(/\ ~isMentalHealthMode
        /\ chatMessages = <<>>
        /\ \E i \in 1..MaxSends : \E reply \in Replies : CompletionSucceeds(i, reply))
       => chatMessages' = <<>>]_vars

\* C6: after the opening call or a follow-up turn fails with a rate-limit
\* signal, _minRequestInterval is max(previous, 10000).
RateLimitEscalates ==
    [][(\/ StartConversationFails("429")
        \/ \E i \in 1..MaxSends : CompletionFails(i, "429"))
       => _minRequestInterval' = Max(_minRequestInterval, RateLimitInterval)]_vars

\* C7: _minRequestInterval starts at 5000, is always 5000 or 10000, and no
\* step lowers it.
IntervalNeverDecreases ==
    /\ _minRequestInterval = InitialInterval
    /\ [](_minRequestInterval \in {InitialInterval, RateLimitInterval})
    /\ [][_minRequestInterval' >= _minRequestInterval]_vars

\* the interval was escalated, and a later turn then failed for another reason
EscalatedThenOtherFailure ==
    /\ _minRequestInterval = RateLimitInterval
    /\ toast = <<"Conversation Error", "Conversation Error">>

\* C8: _minRequestInterval changes only in a step in which a completion call
\* fails with a rate-limit signal.
IntervalChangesOnlyOnRateLimit ==
    [][_minRequestInterval' # _minRequestInterval =>
          \E i \in 1..MaxSends : \E err \in RateLimitSignals : CompletionFails(i, err)]_vars

\* a turn failed for a reason other than rate limiting, the interval as it began
OtherFailureKeepsInterval ==
    /\ _minRequestInterval = InitialInterval
    /\ toast = <<"Conversation Error", "Conversation Error">>

\* C9: sendMessage with a blank text and no image changes neither the
\* conversation, the pending input, the loading flag nor the throttle state,
\* and issues no gateway call.
BlankSendRejected ==
    [][((\E via \in {"enter", "button", "footer"} : SendMessage(via))
        /\ IsBlank(currentMessage) /\ chatImage = NoImage)
       => UNCHANGED <<chatMessages, currentMessage, chatImage, loading,
                      _lastRequestTime, _minRequestInterval, sends, startsInFlight>>]_vars

\* a whitespace-only input was just rejected, a turn being in flight
WhitespaceRejected ==
    /\ toast = <<"Empty Message">>
    /\ currentMessage # <<>>
    /\ loading

\* C10: when startConversation fails the conversation is empty, assessment
\* mode is off and the error is shown.
StartFailureLeavesNothing ==
    [][(\E err \in GatewayErrors : StartConversationFails(err))
       => /\ chatMessages' = <<>>
          /\ ~isMentalHealthMode'
          /\ toast' # <<>>]_vars

SendVias == {"enter", "button", "footer"}

\* sendMessage passed its validation in this step: a turn was started
TurnStarted(via) == SendMessage(via) /\ Len(sends') > Len(sends)

IsPrefix(s, t) == Len(s) <= Len(t) /\ SubSeq(t, 1, Len(s)) = s

\* C11 as stated: a successful start leaves exactly one message, from the
\* assistant; a turn sent next with text t and answered leaves exactly three,
\* the second from the user with content equal to t, the third from the
\* assistant.
StartThenSendVerbatim ==
    [][/\ \A reply \in Replies :
              StartConversationSucceeds(reply) =>
                  Len(chatMessages') = 1 /\ chatMessages'[1].role = "assistant"
       /\ \A via \in SendVias :
              (Len(chatMessages) = 1 /\ TurnStarted(via)) =>
                  /\ Len(chatMessages') = 2
                  /\ chatMessages'[2].role = "user"
                  /\ chatMessages'[2].content = currentMessage
       /\ \A i \in 1..MaxSends : \A reply \in Replies :
              (/\ i \in Slots
               /\ Len(sends[i].updatedMessages) = 2
               /\ CompletionSucceeds(i, reply)) =>
                  /\ Len(chatMessages') = 3
                  /\ chatMessages'[2] = sends[i].updatedMessages[2]
                  /\ chatMessages'[3].role = "assistant"]_vars

\* C11: a successful start leaves exactly one message, from the assistant; a
\* turn sent next with text t and answered leaves exactly three, the second
\* from the user with content equal to t without its leading and trailing
\* whitespace, the third from the assistant.
StartThenSendTrimmed ==
    [][/\ \A reply \in Replies :
              StartConversationSucceeds(reply) =>
                  Len(chatMessages') = 1 /\ chatMessages'[1].role = "assistant"
       /\ \A via \in SendVias :
              (Len(chatMessages) = 1 /\ TurnStarted(via)) =>
                  /\ Len(chatMessages') = 2
                  /\ chatMessages'[2].role = "user"
                  /\ chatMessages'[2].content = Trim(currentMessage)
                  /\ chatMessages'[1] = chatMessages[1]
       /\ \A i \in 1..MaxSends : \A reply \in Replies :
              (/\ i \in Slots
               /\ Len(sends[i].updatedMessages) = 2
               /\ CompletionSucceeds(i, reply)) =>
                  /\ Len(chatMessages') = 3
                  /\ chatMessages'[2] = sends[i].updatedMessages[2]
                  /\ chatMessages'[2].role = "user"
                  /\ chatMessages'[3].role = "assistant"]_vars

\* the first turn after the start was answered; its text was blank (it was
\* sent with an image), so what was recorded is not what was typed
FirstTurnAnswered ==
    /\ isMentalHealthMode
    /\ sends = <<>>
    /\ Len(chatMessages) = 3
    /\ chatMessages[1].role = "assistant"
    /\ chatMessages[2] = [role |-> "user", content |-> <<>>]
    /\ chatMessages[3].role = "assistant"

\* C12: a failure while the attached image is processed (the helper's
\* gateway call fails, or the object URL cannot be made) does not end the
\* turn: the completion call is issued, nothing is reported as an error, and
\* when the completion call succeeds the reply is appended.
ImageFailureKeepsTurn ==
    [][/\ \A i \in 1..MaxSends : \A outcome \in ImageOutcomes \ {"ok"} :
              ImageSentimentReturns(i, outcome) =>
                  /\ Len(sends') = Len(sends)
                  /\ sends'[i].pc = "completion"
                  /\ toast' = <<>>
                  /\ UNCHANGED <<chatMessages, loading, _minRequestInterval>>
       /\ \A i \in 1..MaxSends :
              (toast' = <<"Image Processing">> /\ CooldownElapsed(i)) =>
                  sends'[i].pc = "completion"
       /\ \A via \in SendVias :
              (toast' = <<"Image Processing">> /\ TurnStarted(via)) =>
                  sends'[Len(sends')].pc = "completion"
       /\ \A i \in 1..MaxSends : \A reply \in Replies :
              (/\ i \in Slots
               /\ sends[i].userImage # NoImage
               /\ sends[i].imageAnalysis # "sentiment"
               /\ CompletionSucceeds(i, reply)) =>
                  /\ chatMessages'[Len(chatMessages')] = AssistantMessage(reply)
                  /\ toast' = <<>>]_vars

\* a turn whose image helper failed is waiting for its completion call
CompletionAfterHelperFailure ==
    \E i \in Slots :
        /\ sends[i].pc = "completion"
        /\ sends[i].userImage # NoImage
        /\ sends[i].imageAnalysis = "fallback"

\* C13: when a turn carries an image the note is appended to the content of
\* the message the turn added, the last one of the messages passed in, and to
\* no other message.
ImageNoteOnLastMessage ==
    \A i \in Slots :
        (sends[i].pc = "completion" /\ sends[i].imageAnalysis # "null") =>
            LET messages == ApiMessages(sends[i].updatedMessages)
                enhanced == EnhancedMessages(messages, sends[i].imageAnalysis)
            IN \A k \in 1..Len(messages) :
                   enhanced[k].content =
                       IF k = Len(messages)
                       THEN messages[k].content \o ImageNote
                       ELSE messages[k].content

\* C14: when a turn with an empty text and an image whose helper failed is
\* answered, the user message of the turn is in the conversation with the
\* image note as its whole content, followed by the reply, and no error is
\* shown.
FallbackAnnotationRecorded ==
    [][\A i \in 1..MaxSends : \A reply \in Replies :
          (/\ CompletionSucceeds(i, reply)
           /\ sends[i].userImage # NoImage
           /\ sends[i].imageAnalysis = "fallback"
           /\ sends[i].updatedMessages[Len(sends[i].updatedMessages)].content = <<>>) =>
              LET n == Len(sends[i].updatedMessages)
              IN /\ Len(chatMessages') = n + 1
                 /\ chatMessages'[n].role = "user"
                 /\ chatMessages'[n].content = ImageNote
                 /\ chatMessages'[n + 1] = AssistantMessage(reply)
                 /\ toast' = <<>>]_vars

\* C15: the step that sets _lastRequestTime (the end of the cooldown) is the
\* step that issues the completion call: no other gateway call and no other
\* await lies between them.
TimestampJustBeforeCompletion ==
    [][/\ \A i \in 1..MaxSends :
              CooldownElapsed(i) => sends'[i].pc = "completion"
       /\ \A via \in SendVias :
              (TurnStarted(via) /\ sends'[Len(sends')].pc # "cooldown") =>
                  sends'[Len(sends')].pc = "completion"]_vars

(* ---------------- the cooldown wait, on drawn clock values ------------- *)
\* recorded times of the last request
WaitLasts == {InitialLastRequestTime, 1000}

\* the times elapsed since the last request when continueConversation is
\* called: around every half interval up to beyond the longest interval
WaitElapsed == {k * (InitialInterval \div 2) + d : k \in 0..MaxWaitSteps, d \in {0, 5}}

\* the page in assessment mode with a message typed, the throttle state and
\* the clock drawn
CooldownInit ==
    /\ PageInit
    /\ _lastRequestTime \in WaitLasts
    /\ now \in {_lastRequestTime + e : e \in WaitElapsed}
    /\ _minRequestInterval \in {InitialInterval, RateLimitInterval}
    /\ isMentalHealthMode = TRUE
    /\ chatMessages = <<AssistantMessage(<<"r">>)>>
    /\ currentMessage = <<"a">>
    /\ chatImage = NoImage
    /\ chatImagePreview = NoImage
    /\ loading = FALSE
    /\ toast = <<>>
    /\ sends = <<>>
    /\ startsInFlight = 0

\* one call of continueConversation
FirstSendMessage == sends = <<>> /\ SendMessage("enter")

CooldownNext ==
    \/ FirstSendMessage
    \/ \E i \in 1..MaxSends : CooldownElapsed(i)
    \/ Tick

SpecCooldown == CooldownInit /\ [][CooldownNext]_vars

\* C16: the wait of the cooldown is max(0, _minRequestInterval - (now -
\* _lastRequestTime)): never negative, 0 once the interval has passed, and
\* 4995 for now = 1005, _lastRequestTime = 1000, _minRequestInterval = 5000.
CooldownWaitIsRemainder ==
    [][\A via \in SendVias :
          TurnStarted(via) =>
              LET turn == sends'[Len(sends')]
                  elapsed == now - _lastRequestTime
                  waited == IF turn.pc = "cooldown" THEN turn.wakeAt - now ELSE 0
              IN /\ waited = Max(0, _minRequestInterval - elapsed)
                 /\ waited >= 0
                 /\ (turn.pc = "cooldown") = (elapsed < _minRequestInterval)
                 /\ (now = 1005 /\ _lastRequestTime = 1000
                        /\ _minRequestInterval = InitialInterval) => waited = 4995]_vars

\* the call made at 1005, 5 ms after the last request, waits until 6000
WaitsUntil6000 ==
    /\ now = 1005
    /\ Len(sends) = 1
    /\ sends[1].pc = "cooldown"
    /\ sends[1].wakeAt = 6000

\* C17: the prompt is the preamble, then one line per message of the history,
\* in order, labelled Person for role user and Assistant for any other role
\* and carrying the message's content, then the final instruction.
PromptRendersHistory ==
    \A i \in Slots :
        sends[i].pc = "completion" =>
            LET history == sends[i].updatedMessages
                n == Len(history)
                prompt == FullPrompt(EnhancedMessages(ApiMessages(history),
                                                      sends[i].imageAnalysis))
            IN /\ Len(prompt) = n + 2
               /\ prompt[1] = <<Preamble>>
               /\ prompt[n + 2][3] = FinalInstruction
               /\ \A k \in 1..n :
                      /\ prompt[k + 1][2] =
                             (IF history[k].role = "user" THEN "Person" ELSE "Assistant")
                      /\ prompt[k + 1][4] \in {history[k].content,
                                               history[k].content \o ImageNote}

\* the prompt of a turn with an image is composed from a history of four
\* messages
PromptOfLongHistory ==
    \E i \in Slots :
        /\ sends[i].pc = "completion"
        /\ sends[i].imageAnalysis # "null"
        /\ Len(sends[i].updatedMessages) = MaxMsgs

\* C18: within a session the conversation is append-only: whatever a step
\* taken in assessment mode leaves has the previous conversation as a prefix.
ConversationAppendOnly ==
    [][(isMentalHealthMode /\ isMentalHealthMode') =>
          IsPrefix(chatMessages, chatMessages')]_vars

\* C19: leaving assessment mode empties the conversation, drops the chat
\* image and its preview and turns the mode off, and the next start begins
\* from the empty conversation.
ExitDiscardsSession ==
    [][/\ ExitAssessmentMode =>
              /\ chatMessages' = <<>>
              /\ chatImage' = NoImage
              /\ chatImagePreview' = NoImage
              /\ ~isMentalHealthMode'
       /\ StartMentalHealthMode => chatMessages = <<>>]_vars

\* C20: once a turn that carried an image is resolved, by a reply or by a
\* failure, chatImage and chatImagePreview are null.
ImageClearedAfterTurn ==
    [][\A i \in 1..MaxSends :
          (/\ i \in Slots
           /\ sends[i].userImage # NoImage
           /\ \/ \E reply \in Replies : CompletionSucceeds(i, reply)
              \/ \E err \in GatewayErrors : CompletionFails(i, err)) =>
              chatImage' = NoImage /\ chatImagePreview' = NoImage]_vars

\* C22: rate limiting backs off exponentially: every rate-limit signal on a
\* completion call raises _minRequestInterval above the value it had, so a
\* further signal in a row lengthens the delay again.
BackoffGrows ==
    [][\A i \in 1..MaxSends : \A err \in RateLimitSignals :
          CompletionFails(i, err) => _minRequestInterval' > _minRequestInterval]_vars

\* C24: when calls of continueConversation overlap, their completion calls
\* are still issued an interval apart: with the interval never escalated (so
\* that it is the same for both calls), a call that leaves its cooldown wait
\* and issues its completion call does so at least _minRequestInterval after
\* the request recorded last.
OverlappingCallsSpaced ==
    [][\A i \in 1..MaxSends :
          (/\ _minRequestInterval = InitialInterval
           /\ CooldownElapsed(i)
           /\ sends'[i].pc = "completion") =>
              now - _lastRequestTime >= _minRequestInterval]_vars

\* C28: loading is true whenever a request of the page (an opening message
\* or a chat turn) is in flight, and false when none is.
LoadingWhileInFlight == loading = (sends # <<>> \/ startsInFlight > 0)

\* C30: analyzeImageSentiment never fails towards continueConversation:
\* whatever the outcome of its gateway call it hands back a sentiment, the
\* gateway's on success and the fixed fallback on any error, no error is
\* reported, and the throttle state is as it was.
ImageSentimentNeverFails ==
    [][\A i \in 1..MaxSends : \A outcome \in ImageOutcomes :
          ImageSentimentReturns(i, outcome) =>
              /\ sends'[i].imageAnalysis \in {"sentiment", "fallback"}
              /\ (sends'[i].imageAnalysis = "fallback") = (outcome # "ok")
              /\ toast' = <<>>
              /\ UNCHANGED <<serviceVars, loading, chatMessages>>]_vars

\* the helper answered one turn from the gateway
SentimentFromGateway ==
    \E i \in Slots : sends[i].pc = "completion" /\ sends[i].imageAnalysis = "sentiment"

\* the prompt a turn in flight sends with its completion call
PromptOf(turn) ==
    FullPrompt(EnhancedMessages(ApiMessages(turn.updatedMessages), turn.imageAnalysis))

StartConversationResolves ==
    \/ \E reply \in Replies : StartConversationSucceeds(reply)
    \/ \E err \in GatewayErrors : StartConversationFails(err)

CompletionResolves ==
    \E i \in 1..MaxSends :
        \/ \E reply \in Replies : CompletionSucceeds(i, reply)
        \/ \E err \in GatewayErrors : CompletionFails(i, err)

\* Spec with every timer firing and every gateway call resolving in the end;
\* nothing is assumed about what the user does
FairSpec ==
    /\ Spec
    /\ WF_vars(Tick)
    /\ WF_vars(\E i \in 1..MaxSends : CooldownElapsed(i))
    /\ WF_vars(\E i \in 1..MaxSends, outcome \in ImageOutcomes :
                  ImageSentimentReturns(i, outcome))
    /\ WF_vars(CompletionResolves)
    /\ WF_vars(StartConversationResolves)

\* C21: after the rate-limit toast ("Your message will be attempted again
\* shortly") a gateway call of a chat turn is in flight again at some later
\* time, without the user doing anything.
RetryAfterRateLimit ==
    (toast # <<>> /\ toast[1] = "Service Rate Limit Reached")
        ~> (\E i \in Slots : sends[i].pc \in {"image", "completion"})

(* ---------------------- the camera and the image tab ------------------- *)
chatVars == <<serviceVars, isMentalHealthMode, chatMessages, chatInputVars, loading,
              sends, startsInFlight>>

TimedOutError ==
    "Camera initialization timed out. Please try again or use image upload instead."
AccessError == "Unable to access camera. Please check your camera permissions."
VideoElementError == "Could not access video element. Please try again."
TapError == "Please tap on the video to start the camera"

ImageUrls == {"", "url"}
CameraCapture == "camera-capture.jpg"
ChatCameraCapture == "chat-camera-capture.jpg"
ImageFiles == Images \cup {CameraCapture}

\* how videoRef.current.play() can end: its promise resolves, its promise is
\* rejected, or (older browsers) it returns no promise
PlayOutcomes == {"resolved", "rejected", "none"}

Callback(kind, stream) == [kind |-> kind, stream |-> stream]

\* videoRef.current is set while the dialog, and with it the video element,
\* is rendered
VideoMounted == isCameraOpen

\* the video element has data to show: readyState >= 2, the canplay event
VideoHasData == VideoMounted /\ videoSrcObject \in liveStreams

\* clearTimeout(timeoutRef.current); timeoutRef.current = null
ClearedTimeout == NoTimeout

\* the Camera button of the image tab: openCamera up to its await.  The
\* timer's callback keeps the isVideoReady and isCameraOpen of the render in
\* which openCamera was called.  The dialog is modal, so the button is not
\* reached while it is open.
OpenCamera ==
    /\ ~isCameraOpen
    /\ opened < MaxOpens
    /\ opened' = opened + 1
    /\ cameraError' = NoError
    /\ liveStreams' = liveStreams \ {streamRef}
    /\ isVideoReady' = FALSE
    /\ timeoutRef' = [id |-> opened + 1, fireAt |-> now + InitTimeoutMs,
                      isVideoReady |-> isVideoReady, isCameraOpen |-> isCameraOpen,
                      pending |-> TRUE]
    /\ getUserMedia' = getUserMedia \cup {opened + 1}
    /\ closedSinceOpen' = FALSE
    /\ toast' = <<>>
    /\ UNCHANGED <<now, chatVars, isCameraOpen, isChatCameraOpen, streamRef,
                   videoSrcObject, callbacks, imageTabVars>>

\* getUserMedia resolved: the rest of openCamera's try, up to the setTimeout
GetUserMediaResolves(k) ==
    /\ k \in getUserMedia
    /\ getUserMedia' = getUserMedia \ {k}
    /\ streamRef' = k
    /\ liveStreams' = liveStreams \cup {k}
    /\ isCameraOpen' = TRUE
    /\ callbacks' = callbacks \cup {Callback("attach", k)}
    /\ toast' = <<>>
    /\ UNCHANGED <<now, chatVars, isVideoReady, cameraError, isChatCameraOpen,
                   timeoutRef, videoSrcObject, opened,
                   closedSinceOpen, imageTabVars>>

\* getUserMedia was rejected: openCamera's catch
GetUserMediaRejects(k) ==
    /\ k \in getUserMedia
    /\ getUserMedia' = getUserMedia \ {k}
    /\ cameraError' = AccessError
    /\ toast' = <<"Camera Error">>
    /\ timeoutRef' = ClearedTimeout
    /\ UNCHANGED <<now, chatVars, isCameraOpen, isVideoReady, isChatCameraOpen,
                   streamRef, videoSrcObject, liveStreams, callbacks, opened,
                   closedSinceOpen, imageTabVars>>

\* the 100 ms timer of openCamera: the stream is given to the video element
\* and play() is called, or the element is missing
AttachVideo(k, played) ==
    /\ Callback("attach", k) \in callbacks
    /\ IF VideoMounted
       THEN /\ videoSrcObject' = k
            /\ callbacks' =
                   (callbacks \ {Callback("attach", k)}) \cup
                   (CASE played = "rejected" -> {Callback("playRejected", 0)}
                      [] played = "none" -> {Callback("checkVideoState", 0)}
                      [] OTHER -> {})
            /\ UNCHANGED cameraError
       ELSE /\ cameraError' = VideoElementError
            /\ callbacks' = callbacks \ {Callback("attach", k)}
            /\ UNCHANGED videoSrcObject
    /\ toast' = <<>>
    /\ UNCHANGED <<now, chatVars, isCameraOpen, isVideoReady, isChatCameraOpen,
                   streamRef, timeoutRef, liveStreams, getUserMedia, opened,
                   closedSinceOpen, imageTabVars>>

\* the catch of the play promise: manuallyInitializeVideo up to its setTimeout
PlayRejected ==
    /\ Callback("playRejected", 0) \in callbacks
    /\ IF VideoMounted /\ streamRef # 0
       THEN /\ videoSrcObject' = 0
            /\ callbacks' =
                   (callbacks \ {Callback("playRejected", 0)}) \cup
                   {Callback("manualInit", 0)}
       ELSE /\ callbacks' = callbacks \ {Callback("playRejected", 0)}
            /\ UNCHANGED videoSrcObject
    /\ toast' = <<>>
    /\ UNCHANGED <<now, chatVars, isCameraOpen, isVideoReady, cameraError,
                   isChatCameraOpen, streamRef, timeoutRef, liveStreams, getUserMedia,
                   opened,
                   closedSinceOpen, imageTabVars>>

\* the 100 ms timer of manuallyInitializeVideo
ManualInit ==
    /\ Callback("manualInit", 0) \in callbacks
    /\ IF VideoMounted /\ streamRef # 0
       THEN /\ videoSrcObject' = streamRef
            /\ cameraError' = TapError
            /\ callbacks' =
                   (callbacks \ {Callback("manualInit", 0)}) \cup
                   {Callback("checkVideoState", 0)}
       ELSE /\ callbacks' = callbacks \ {Callback("manualInit", 0)}
            /\ UNCHANGED <<videoSrcObject, cameraError>>
    /\ toast' = <<>>
    /\ UNCHANGED <<now, chatVars, isCameraOpen, isVideoReady, isChatCameraOpen,
                   streamRef, timeoutRef, liveStreams, getUserMedia, opened,
                   closedSinceOpen, imageTabVars>>

\* handleVideoReady
HandleVideoReady ==
    /\ isVideoReady' = TRUE
    /\ cameraError' = NoError
    /\ timeoutRef' = ClearedTimeout

\* a checkVideoState timer: the video is ready, or the check is scheduled
\* again, or the element is gone
CheckVideoState ==
    /\ Callback("checkVideoState", 0) \in callbacks
    /\ IF VideoMounted
       THEN IF VideoHasData
            THEN /\ HandleVideoReady
                 /\ callbacks' = callbacks \ {Callback("checkVideoState", 0)}
            ELSE UNCHANGED <<isVideoReady, cameraError, timeoutRef, callbacks>>
       ELSE /\ callbacks' = callbacks \ {Callback("checkVideoState", 0)}
            /\ UNCHANGED <<isVideoReady, cameraError, timeoutRef>>
    /\ toast' = <<>>
    /\ UNCHANGED <<now, chatVars, isCameraOpen, isChatCameraOpen, streamRef,
                   videoSrcObject, liveStreams, getUserMedia, opened,
                   closedSinceOpen, imageTabVars>>

\* the video element's canplay event: onCanPlay={handleVideoReady}
VideoCanPlay ==
    /\ VideoHasData
    /\ HandleVideoReady
    /\ toast' = <<>>
    /\ UNCHANGED <<now, chatVars, isCameraOpen, isChatCameraOpen, streamRef,
                   videoSrcObject, liveStreams, getUserMedia, callbacks, opened,
                   closedSinceOpen, imageTabVars>>

\* the timer of openCamera fires after 10 s: its test reads the isVideoReady
\* and isCameraOpen its closure holds
InitTimeoutFires ==
    /\ timeoutRef.pending
    /\ now >= timeoutRef.fireAt
    /\ cameraError' = IF ~timeoutRef.isVideoReady /\ timeoutRef.isCameraOpen
                      THEN TimedOutError
                      ELSE cameraError
    /\ timeoutRef' = [timeoutRef EXCEPT !.pending = FALSE]
    /\ toast' = <<>>
    /\ UNCHANGED <<now, chatVars, isCameraOpen, isVideoReady, isChatCameraOpen,
                   streamRef, videoSrcObject, liveStreams, getUserMedia, callbacks,
                   opened,
                   closedSinceOpen, imageTabVars>>

\* closeCamera
CloseCameraBody ==
    /\ liveStreams' = liveStreams \ {streamRef}
    /\ streamRef' = 0
    /\ videoSrcObject' = 0
    /\ timeoutRef' = ClearedTimeout
    /\ isCameraOpen' = FALSE
    /\ isVideoReady' = FALSE
    /\ cameraError' = NoError
    /\ closedSinceOpen' = TRUE

\* the dialog's Cancel button, or the dialog dismissed
CloseCamera ==
    /\ isCameraOpen
    /\ CloseCameraBody
    /\ toast' = <<>>
    /\ UNCHANGED <<now, chatVars, isChatCameraOpen, getUserMedia, callbacks, opened,
                   imageTabVars>>

\* the dialog's Capture button (disabled until the video is ready):
\* capturePhoto up to canvas.toBlob
CapturePhoto ==
    /\ isCameraOpen
    /\ isVideoReady
    /\ callbacks' = callbacks \cup {Callback("toBlob", 0)}
    /\ toast' = <<>>
    /\ UNCHANGED <<now, chatVars, isCameraOpen, isVideoReady, cameraError,
                   isChatCameraOpen, streamRef, timeoutRef, videoSrcObject, liveStreams,
                   getUserMedia, opened,
                   closedSinceOpen, imageTabVars>>

\* the callback of canvas.toBlob: the file is taken over and the camera
\* closed; with no blob the callback throws
ToBlobCallback(blobOk) ==
    /\ Callback("toBlob", 0) \in callbacks
    /\ callbacks' = callbacks \ {Callback("toBlob", 0)}
    /\ IF blobOk
       THEN /\ imageFile' = CameraCapture
            /\ imagePreviewUrl' = CameraCapture
            /\ imageUrl' = ""
            /\ CloseCameraBody
            /\ toast' = <<"Photo Captured">>
       ELSE /\ toast' = <<>>
            /\ UNCHANGED <<imageTabVars, liveStreams, streamRef, videoSrcObject,
                           timeoutRef, isCameraOpen, isVideoReady, cameraError,
                           closedSinceOpen>>
    /\ UNCHANGED <<now, chatVars, isChatCameraOpen, getUserMedia, opened>>

\* handleImageFileChange with a file chosen
HandleImageFileChange(file) ==
    /\ imageFile' = file
    /\ imagePreviewUrl' = file
    /\ imageUrl' = ""
    /\ toast' = <<>>
    /\ UNCHANGED <<now, chatVars, cameraVars>>

FileAfterUrlChange_Kept(file) == file

\* the image URL input's onChange: setImageFile(null), setImagePreviewUrl(null)
FileAfterUrlChange(file) == NoImage

\* the image URL input's onChange
ImageUrlChange(url) ==
    /\ imageUrl' = url
    /\ imageFile' = FileAfterUrlChange(imageFile)
    /\ imagePreviewUrl' = FileAfterUrlChange(imagePreviewUrl)
    /\ toast' = <<>>
    /\ UNCHANGED <<now, chatVars, cameraVars>>

\* the Take Photo button of the chat: openChatCamera
OpenChatCamera ==
    /\ isMentalHealthMode
    /\ isChatCameraOpen' = TRUE
    /\ toast' = <<>>
    /\ UNCHANGED <<now, chatVars, isCameraOpen, isVideoReady, cameraError, streamRef,
                   timeoutRef, videoSrcObject, liveStreams, getUserMedia, callbacks,
                   opened,
                   closedSinceOpen, imageTabVars>>

\* captureChatPhoto up to canvas.toBlob.  No element of the page calls it (the
\* dialog's Capture button calls capturePhoto), so it is no step of CameraNext.
CaptureChatPhoto ==
    /\ IF ~VideoMounted
       THEN /\ toast' = <<"Capture Error">>
            /\ UNCHANGED callbacks
       ELSE IF ~isVideoReady
       THEN /\ toast' = <<"Camera Not Ready">>
            /\ UNCHANGED callbacks
       ELSE /\ toast' = <<>>
            /\ callbacks' = callbacks \cup {Callback("chatToBlob", 0)}
    /\ UNCHANGED <<now, chatVars, isCameraOpen, isVideoReady, cameraError,
                   isChatCameraOpen, streamRef, timeoutRef, videoSrcObject, liveStreams,
                   getUserMedia, opened, closedSinceOpen, imageTabVars>>

\* the callback of captureChatPhoto's canvas.toBlob
ChatToBlobCallback(blobOk) ==
    /\ Callback("chatToBlob", 0) \in callbacks
    /\ callbacks' = callbacks \ {Callback("chatToBlob", 0)}
    /\ IF blobOk
       THEN /\ chatImage' = ChatCameraCapture
            /\ chatImagePreview' = ChatCameraCapture
            /\ CloseCameraBody
            /\ isChatCameraOpen' = FALSE
            /\ toast' = <<"Photo Captured">>
       ELSE /\ toast' = <<>>
            /\ UNCHANGED <<chatImage, chatImagePreview, liveStreams, streamRef,
                           videoSrcObject, timeoutRef, isCameraOpen, isVideoReady,
                           cameraError, closedSinceOpen, isChatCameraOpen>>
    /\ UNCHANGED <<now, serviceVars, isMentalHealthMode, chatMessages, currentMessage,
                   loading, sends, startsInFlight, getUserMedia, opened, imageTabVars>>

CameraNext ==
    \/ Tick
    \/ StartMentalHealthMode
    \/ \E reply \in Replies : StartConversationSucceeds(reply)
    \/ \E err \in GatewayErrors : StartConversationFails(err)
    \/ OpenChatCamera
    \/ OpenCamera
    \/ \E k \in 1..MaxOpens : GetUserMediaResolves(k)
    \/ \E k \in 1..MaxOpens : GetUserMediaRejects(k)
    \/ \E k \in 1..MaxOpens, played \in PlayOutcomes : AttachVideo(k, played)
    \/ PlayRejected
    \/ ManualInit
    \/ CheckVideoState
    \/ VideoCanPlay
    \/ InitTimeoutFires
    \/ CloseCamera
    \/ CapturePhoto
    \/ \E blobOk \in BOOLEAN : ToBlobCallback(blobOk)
    \/ \E file \in Images : HandleImageFileChange(file)
    \/ \E url \in ImageUrls : ImageUrlChange(url)

SpecCamera == Init /\ [][CameraNext]_vars

\* C25: when the 10 s timer of openCamera fires while the video is not ready
\* and the camera dialog is open, cameraError becomes the 'Camera
\* initialization timed out' message.
InitTimeoutSetsError ==
    [][(InitTimeoutFires /\ ~isVideoReady /\ isCameraOpen) =>
           cameraError' = TimedOutError]_vars

\* the camera is fully released: no stream held, the dialog closed, the video
\* not ready, no error shown, no initialization timeout pending
Released ==
    /\ streamRef = 0
    /\ ~isCameraOpen
    /\ ~isVideoReady
    /\ cameraError = NoError
    /\ ~timeoutRef.pending

\* C26: from closeCamera until the next openCamera call the camera is fully
\* released, whatever promise or timer of an earlier openCamera call is still
\* to run.
ReleasedUntilNextOpen == closedSinceOpen => Released

\* C27: openChatCamera starts the path that leads to a chat photo: it
\* acquires a camera stream (asks for one, or the camera dialog opens).
ChatCameraAcquiresStream ==
    [][OpenChatCamera => (getUserMedia' # getUserMedia \/ isCameraOpen')]_vars

\* C29: the image tab never holds both an image file and an image URL, and
\* it holds a preview URL only together with an image file.
FileXorUrl ==
    /\ ~(imageFile # NoImage /\ imageUrl # "")
    /\ imagePreviewUrl # NoImage => imageFile # NoImage

\* C29: a photo was just captured into the image tab.
PhotoCapturedIntoTab ==
    /\ toast = <<"Photo Captured">>
    /\ imageFile = CameraCapture
    /\ imagePreviewUrl # NoImage
    /\ imageUrl = ""

====
